---- MODULE Spec2Model ----
(***************************************************************************)
(* A model of the deterministic video scheduler of schwepe-analyzer       *)
(* (src/video-scheduler.js): the seed generator, the seeded Fisher-Yates  *)
(* shuffle, the persisted schedule, the static (interference) guard and   *)
(* the playback loop.                                                      *)
(*                                                                         *)
(* Conventions.                                                            *)
(*  - Videos are the integers 1..MaxVideos; video k stands for a file     *)
(*    name, and the order of the integers is the order of Array.sort().   *)
(*  - null is -1 (no video, no timestamp, no seed is negative here).      *)
(*  - Instants are milliseconds counted from the reference UTC midnight   *)
(*    2025-10-06T00:00:00Z, which is EpochDay0 days after the Unix epoch: *)
(*    Date.getTime() of an instant t is EpochDay0 * DayMs + t.            *)
(*  - Static levels and the threshold are percentages (0.3 is 30).        *)
(***************************************************************************)
EXTENDS Integers, Sequences, FiniteSets, TLC

VARIABLES
    \* ---- the VideoScheduler object (constructor, lines 11-39)
    schedule,        \* this.schedule
    config,          \* this.config
    isStaticActive,  \* this.isStaticActive
    staticTimer,     \* this.staticTimer: "null", "pending" (handle of a timer not yet fired), "fired"
    videoTimer,      \* this.videoTimer: "null" (no code assigns a handle to it)
    \* ---- the process and its event loop
    phase,           \* "new" (constructed), "ready" (init() has run)
    loopPc,          \* where playbackLoop is suspended
    staticAwait,     \* onStaticDetected calls suspended at `await this.stopCurrentVideo()`
    orphanTimers,    \* pending persistence timers whose handle was overwritten
    \* ---- the environment
    scheduleFile,    \* video-schedule.json
    configFile,      \* scheduler-config.json
    videosDir,       \* the video files in saved_videos/
    now,             \* the clock
    tz,              \* the host's time zone: UTC offset (hours) at local midnight of each day
    envBuild,        \* NODE_ENV === 'production' || BUILD_ENV
    diskFaulty,      \* whether a write to the disk may fail
    \* ---- observations
    lastOp,          \* the operation of the last step, its arguments and what it returned
    sinceGen,        \* the videos playNextVideo returned since this process generated the schedule
    \* ---- harness of the pure functions
    array,           \* the caller's list, the first argument of shuffleArray
    seedArg,         \* the seed the caller passes to shuffleArray
    shuffleCalls,    \* the last shuffleArray calls: arguments and result
    peerTz,          \* the UTC offset (hours) of a second, independent client
    seedCalls,       \* the last generateUTCSeed calls: caller, instant and result
    syncClients,     \* two browser clients of UniversalSync: the instant of their last
                     \* sync and the position each holds in window.videoScheduler.schedule
    \* ---- the tabs of one browser (CrossTabSync)
    masterClaim,     \* localStorage['video-scheduler-master']: the instant of the claim, or null
    tabs             \* of each tab: whether its page is open, and CrossTabSync.isMaster

objVars  == <<schedule, config, isStaticActive, staticTimer, videoTimer>>
procVars == <<phase, loopPc, staticAwait, orphanTimers>>
envVars  == <<scheduleFile, configFile, videosDir, now, tz, envBuild, diskFaulty>>
obsVars  == <<lastOp, sinceGen>>
tabVars  == <<masterClaim, tabs>>
pureVars == <<array, seedArg, shuffleCalls, peerTz, seedCalls, syncClients, tabVars>>
vars     == <<objVars, procVars, envVars, obsVars, pureVars>>

null == -1

(***************************************************************************)
(* Bounds of the model.                                                    *)
(***************************************************************************)
MaxVideos == 2        \* size of the universe of video files of the scheduler
MaxLen == 3           \* the shuffle harness takes lists of up to MaxLen items
MaxDay == 2           \* instants of the seed harness lie on days 0..MaxDay
MaxOffsetHours == 1   \* time zones of UTC-MaxOffsetHours .. UTC+MaxOffsetHours
MaxSeed == 5          \* the shuffle harness draws the seeds 0..MaxSeed (and SampleSeeds)
MaxClockSteps == 2    \* the clock advances at most this many half hours
MaxPlays == 3         \* playNextVideo serves at most this many videos per schedule
MaxSuspended == 2     \* persistence timers pending or about to be set at one time
MaxTabs == 3          \* tabs of one browser

(***************************************************************************)
(* Program constants.                                                      *)
(***************************************************************************)
LcgM == 233280
LcgC == 49297
SeedModulus == 1000000
DailyMultiplier == 31
HourlyMultiplier == 17
EpochDay0 == 20367
HourMs == 60 * 60 * 1000
DayMs == 24 * 60 * 60 * 1000
HalfHourMs == 30 * 60 * 1000
videoDuration == 10
StaleMs == 5000

Videos == 1..MaxVideos
Days == 0..MaxDay
Offsets == (0 - MaxOffsetHours)..MaxOffsetHours

(***************************************************************************)
(* Sequences.                                                              *)
(***************************************************************************)
Range(s) == {s[i] : i \in DOMAIN s}

Min(S) == CHOOSE x \in S : \A y \in S : x <= y

RECURSIVE SortedSeq(_)
\* files.sort() of a set of file names
SortedSeq(S) == IF S = {} THEN <<>> ELSE <<Min(S)>> \o SortedSeq(S \ {Min(S)})

\* every list of distinct items of length 0..MaxLen, in every order
DistinctSeqs ==
    UNION {{s \in [1..n -> 1..MaxLen] : \A i, j \in 1..n : s[i] = s[j] => i = j} : n \in 0..MaxLen}

IsPermutationOf(out, in) ==
    /\ Len(out) = Len(in)
    /\ \A v \in Range(in) \cup Range(out) :
          Cardinality({i \in DOMAIN out : out[i] = v}) = Cardinality({i \in DOMAIN in : in[i] = v})

(***************************************************************************)
(* shuffleArray (lines 133-160).                                           *)
(***************************************************************************)
\* seed = (seed * 9301 + 49297) % 233280, for seed >= 0. 9301 = 93 * 100 + 1: the
\* product is taken in two parts that stay below 2^31; the value is the same.
random(seed) == ((((seed * 93) % LcgM) * 100) + seed + LcgC) % LcgM

\* Math.floor(random() * currentIndex) with random() = s / 233280, s the new LCG state
randomIndex(s, currentIndex) == (s * currentIndex) \div LcgM

\* a slip of the swap: the second assignment is lost
swapLosesElement(shuffled, i, j) == [shuffled EXCEPT ![i + 1] = shuffled[j + 1]]

\* [shuffled[currentIndex], shuffled[randomIndex]] = [shuffled[randomIndex], shuffled[currentIndex]]
\* (0-based indices of the code; sequences are 1-based)
swap(shuffled, i, j) == [shuffled EXCEPT ![i + 1] = shuffled[j + 1], ![j + 1] = shuffled[i + 1]]

RECURSIVE shuffleLoop(_, _, _)
\* while (currentIndex !== 0) { ... } of the seeded branch
shuffleLoop(shuffled, currentIndex, seed) ==
    IF currentIndex = 0 THEN shuffled
    ELSE LET s == random(seed)
             r == randomIndex(s, currentIndex)
         IN shuffleLoop(swap(shuffled, currentIndex - 1, r), currentIndex - 1, s)

RECURSIVE randomAfter(_, _)
\* the LCG state after n draws
randomAfter(seed, n) == IF n = 0 THEN seed ELSE randomAfter(random(seed), n - 1)

\* a slip: the generator's state is a field that outlives the call, and a later call
\* goes on from where the last seeded call left it
shuffleArrayCarriesState(items, seed) ==
    LET last == shuffleCalls[Len(shuffleCalls)]
    IN IF shuffleCalls # <<>> /\ last.seed # null
       THEN shuffleLoop(items, Len(items), randomAfter(last.seed, Len(last.items)))
       ELSE shuffleLoop(items, Len(items), seed)

\* shuffleArray(array, seed) with seed !== null: `seed` is the call's own parameter,
\* the only state of the generator
shuffleArray(items, seed) == shuffleLoop(items, Len(items), seed)

RECURSIVE randomShuffles(_, _)
\* the unseeded branch: every result the loop can give, Math.random() being any
\* number of [0, 1)
randomShuffles(shuffled, currentIndex) ==
    IF currentIndex = 0 THEN {shuffled}
    ELSE UNION {randomShuffles(swap(shuffled, currentIndex - 1, r), currentIndex - 1) :
                   r \in 0..(currentIndex - 1)}

(***************************************************************************)
(* generateUTCSeed (lines 114-130).                                        *)
(***************************************************************************)
\* every time zone rule: an offset per day that is constant, or changes once, by
\* one hour, from a day to the next (a daylight-saving change)
TzRules ==
    {z \in [Days -> Offsets] :
        /\ \A d \in Days : d < MaxDay => (z[d + 1] - z[d] \in {-1, 0, 1})
        /\ Cardinality({d \in Days : d < MaxDay /\ z[d + 1] # z[d]}) <= 1}

\* a zone with no daylight saving
FixedZone(offset) == [d \in Days |-> offset]

\* utcDate.getUTCFullYear(), getUTCMonth(), getUTCDate(): the UTC calendar date of
\* the instant, as a day number
utcDay(date) == date \div DayMs

\* new Date(year, month, day): midnight of that calendar date in the host's LOCAL
\* time, i.e. offset hours before the UTC midnight of the date (line 120)
localMidnight(day, zone) == day * DayMs - zone[day] * HourMs

\* a slip: the hourly branch counts the hours of the host's local wall clock
generateUTCSeedLocalHour(date, zone, dailySeedReset) ==
    IF dailySeedReset
    THEN LET utcMidnight == localMidnight(utcDay(date), zone)
             daysSinceEpoch == EpochDay0 + (utcMidnight \div DayMs)
         IN (daysSinceEpoch * DailyMultiplier) % SeedModulus
    ELSE LET localHour == EpochDay0 * 24 + ((date + zone[utcDay(date)] * HourMs) \div HourMs)
         IN (localHour * HourlyMultiplier) % SeedModulus

\* generateUTCSeed(date) in a process whose host is in `zone`
generateUTCSeedIn(date, zone, dailySeedReset) ==
    IF dailySeedReset
    THEN LET utcMidnight == localMidnight(utcDay(date), zone)
             \* Math.floor(utcMidnight.getTime() / (24 * 60 * 60 * 1000))
             daysSinceEpoch == EpochDay0 + (utcMidnight \div DayMs)
         IN (daysSinceEpoch * DailyMultiplier) % SeedModulus
    ELSE LET \* Math.floor(targetDate.getTime() / (60 * 60 * 1000))
             utcHour == EpochDay0 * 24 + (date \div HourMs)
         IN (utcHour * HourlyMultiplier) % SeedModulus

\* this.generateUTCSeed(date) of the scheduler
generateUTCSeed(date) == generateUTCSeedIn(date, tz, config.dailySeedReset)

(***************************************************************************)
(* The scheduler object as the constructor leaves it (lines 16-38).        *)
(***************************************************************************)
DefaultSchedule ==
    [generated |-> null, shuffledOrder |-> <<>>, currentIndex |-> 0, totalPlayed |-> 0,
     staticDetected |-> FALSE, currentVideo |-> null]

DefaultConfig ==
    [shuffleSeed |-> null, scheduleRebuildInterval |-> 3600000,
     staticDetectionThreshold |-> 30, regenerateOnBuild |-> TRUE, dailySeedReset |-> TRUE]

\* lastOp: the operation, its argument (the level of onStaticDetected, the
\* forceRegenerate of generateSchedule), what it returned ("true", "false", "null",
\* "video") and what it logged ("regenerated", "cycle complete", "static persisting")
NoOp == [op |-> "none", level |-> 0, force |-> FALSE, ret |-> "none", log |-> "none"]

\* sinceGen before this process has generated a schedule
Untracked == [fresh |-> FALSE, served |-> <<>>]

\* a file that does not exist
AbsentFile == [state |-> "absent", data |-> [absent |-> TRUE]]

\* a file that holds the JSON object `data`
JsonFile(data) == [state |-> "ok", data |-> data]

\* a file that exists and does not parse: a write that failed midway has left the
\* beginning of the JSON text of `data`
DamagedFile(data) == [state |-> "corrupt", data |-> data]

\* the object, the process and the observations right after `new VideoScheduler()`
Constructed ==
    /\ schedule = DefaultSchedule
    /\ config = DefaultConfig
    /\ isStaticActive = FALSE
    /\ staticTimer = "null"
    /\ videoTimer = "null"
    /\ phase = "new"
    /\ loopPc = "off"
    /\ staticAwait = 0
    /\ orphanTimers = 0
    /\ lastOp = NoOp
    /\ sinceGen = Untracked

IdleEnv ==
    /\ scheduleFile = AbsentFile
    /\ configFile = AbsentFile
    /\ videosDir = {}
    /\ now = 0
    /\ envBuild = FALSE
    /\ diskFaulty = FALSE

\* a video name a browser client holds: a name of the shuffled order, the made-up
\* name `video_<id>`, or none
OrderVideo(v) == [kind |-> "order", id |-> v]

FallbackVideo(index) == [kind |-> "fallback", id |-> index]

NoVideo == [kind |-> "none", id |-> 0]

\* two clients that have not synced: each holds the cursor it had
NoSync ==
    [at |-> null,
     host |-> [currentIndex |-> 0, currentVideo |-> NoVideo],
     peer |-> [currentIndex |-> 1, currentVideo |-> NoVideo],
     expectedIndex |-> null]

\* the tabs of the browser
Tabs == 1..MaxTabs

\* a tab whose page is not open; isMaster is false in a page that loads (line 8)
ClosedTab == [open |-> FALSE, isMaster |-> FALSE]

\* no tab is open and localStorage holds no claim
NoTabs ==
    /\ masterClaim = null
    /\ tabs = [t \in Tabs |-> ClosedTab]

\* the last two entries of a log
Last2(log) == IF Len(log) <= 2 THEN log ELSE SubSeq(log, Len(log) - 1, Len(log))

(***************************************************************************)
(* SpecShuffle: shuffleArray applied, again and again, to a list of        *)
(* distinct videos and a seed; the initial state draws the list and the    *)
(* seed.                                                                   *)
(***************************************************************************)
SampleSeeds == {631377, 233279, 999999}
SeedSet == (0..MaxSeed) \cup SampleSeeds

\* a call shuffleArray(array, seedArg): `const shuffled = [...array]` is a copy, and
\* the loop writes to the copy alone, so the caller's list stays what it was
ShuffleCall ==
    /\ array' = array
    /\ shuffleCalls' =
           Last2(Append(shuffleCalls,
                        [items |-> array, seed |-> seedArg, out |-> shuffleArray(array, seedArg)]))
    /\ UNCHANGED <<objVars, procVars, envVars, obsVars, seedArg, peerTz, seedCalls, syncClients,
                      tabVars>>

\* a call shuffleArray(array) or shuffleArray(array, null)
ShuffleCallUnseeded ==
    \E out \in randomShuffles(array, Len(array)) :
        /\ array' = array
        /\ shuffleCalls' = Last2(Append(shuffleCalls, [items |-> array, seed |-> null, out |-> out]))
        /\ UNCHANGED <<objVars, procVars, envVars, obsVars, seedArg, peerTz, seedCalls, syncClients,
                      tabVars>>

InitShuffle ==
    /\ Constructed /\ IdleEnv /\ tz = FixedZone(0)
    /\ array \in DistinctSeqs
    /\ seedArg \in SeedSet
    /\ shuffleCalls = <<>> /\ peerTz = 0 /\ seedCalls = <<>> /\ syncClients = NoSync
    /\ NoTabs

NextShuffle == ShuffleCall \/ ShuffleCallUnseeded

SpecShuffle == InitShuffle /\ [][NextShuffle]_vars

(***************************************************************************)
(* SpecSeed: generateUTCSeed called by the host and by a second client in  *)
(* another time zone, at instants on the days 0..MaxDay.                   *)
(***************************************************************************)
SeedInstants ==
    {d * DayMs + t : d \in Days, t \in {0, 12 * HourMs, 12 * HourMs + HalfHourMs, DayMs - 1}}

SeedCall(caller, date) ==
    LET zone == IF caller = "host" THEN tz ELSE FixedZone(peerTz)
        seed == generateUTCSeedIn(date, zone, config.dailySeedReset)
    IN /\ seedCalls' = Last2(Append(seedCalls, [caller |-> caller, date |-> date, seed |-> seed]))
       /\ UNCHANGED <<objVars, procVars, envVars, obsVars, array, seedArg, shuffleCalls, peerTz,
                      syncClients, tabVars>>

InitSeed ==
    /\ schedule = DefaultSchedule
    /\ \E daily \in BOOLEAN : config = [DefaultConfig EXCEPT !.dailySeedReset = daily]
    /\ isStaticActive = FALSE /\ staticTimer = "null" /\ videoTimer = "null"
    /\ phase = "ready" /\ loopPc = "off" /\ staticAwait = 0 /\ orphanTimers = 0
    /\ lastOp = NoOp /\ sinceGen = Untracked
    /\ IdleEnv
    /\ tz \in TzRules
    /\ array = <<>> /\ seedArg = 0 /\ shuffleCalls = <<>> /\ seedCalls = <<>>
    /\ syncClients = NoSync
    /\ NoTabs
    /\ peerTz \in Offsets

NextSeed == \E caller \in {"host", "peer"}, date \in SeedInstants : SeedCall(caller, date)

SpecSeed == InitSeed /\ [][NextSeed]_vars

(***************************************************************************)
(* SpecSync: two browser clients of UniversalSync, the host in its time    *)
(* zone and a peer in another, hold the same cached shuffled order and     *)
(* sync at the same instants.                                              *)
(***************************************************************************)
\* the remainder a % n of JavaScript, which has the sign of a
jsRem(a, n) == IF a >= 0 THEN a % n ELSE 0 - ((0 - a) % n)

\* calculateUniversalPosition(currentTime) in a browser whose host is in `zone`:
\* todayUTC is new Date(year, month, day) of the UTC date parts, a local midnight
calculateUniversalPositionIn(currentTime, zone) ==
    LET todayUTC == localMidnight(utcDay(currentTime), zone)
        msSinceStart == currentTime - todayUTC
    IN [videoIndex |-> msSinceStart \div (videoDuration * 1000),
        msSinceStart |-> msSinceStart]

\* getVideoAtPosition(index) with `order` cached in localStorage:
\* order[index % order.length] || `video_${index}`
getVideoAtPosition(order, index) ==
    IF Len(order) > 0 /\ jsRem(index, Len(order)) >= 0
    THEN OrderVideo(order[jsRem(index, Len(order)) + 1])
    ELSE FallbackVideo(index)

\* applyUniversalPosition: the client's local position afterwards
applyUniversalPosition(local, universalPosition, order) ==
    LET expectedVideo == getVideoAtPosition(order, universalPosition.videoIndex)
    IN IF local.currentIndex # universalPosition.videoIndex \/ local.currentVideo # expectedVideo
       THEN [local EXCEPT !.currentIndex = universalPosition.videoIndex,
                          !.currentVideo = expectedVideo]
       ELSE local

\* checkExpectedPosition(schedule, now) of the debug script: expectedIndex, from the
\* milliseconds since schedule.generated and 10 seconds a video; NaN (null) for an
\* empty order
checkExpectedPosition(generated, nowTime, order) ==
    LET msSinceGenerated == nowTime - generated
    IN IF Len(order) = 0 THEN null
       ELSE jsRem(msSinceGenerated \div 10000, Len(order))

SyncInstants == {d * DayMs + t : d \in Days, t \in {0, 5000, 15000, 12 * HourMs, DayMs - 1}}

\* the one-second interval of both clients fires at currentTime: each runs
\* performUniversalSync; expectedIndex is what checkExpectedPosition computes at
\* that instant, in either client
performUniversalSync(currentTime) ==
    LET synced(local, zone) ==
            applyUniversalPosition(local, calculateUniversalPositionIn(currentTime, zone), array)
    IN /\ syncClients' =
              [at |-> currentTime,
               host |-> synced(syncClients.host, tz),
               peer |-> synced(syncClients.peer, FixedZone(peerTz)),
               expectedIndex |-> checkExpectedPosition(schedule.generated, currentTime, array)]
       /\ UNCHANGED <<objVars, procVars, envVars, obsVars, array, seedArg, shuffleCalls, peerTz,
                      seedCalls, tabVars>>

InitSync ==
    /\ schedule = [DefaultSchedule EXCEPT !.generated = 0]
    /\ config = DefaultConfig
    /\ isStaticActive = FALSE /\ staticTimer = "null" /\ videoTimer = "null"
    /\ phase = "ready" /\ loopPc = "off" /\ staticAwait = 0 /\ orphanTimers = 0
    /\ lastOp = NoOp /\ sinceGen = Untracked
    /\ IdleEnv
    /\ tz \in TzRules
    /\ peerTz \in Offsets
    /\ array \in DistinctSeqs
    /\ seedArg = 0 /\ shuffleCalls = <<>> /\ seedCalls = <<>>
    /\ syncClients = NoSync
    /\ NoTabs

NextSync == \E currentTime \in SyncInstants : performUniversalSync(currentTime)

SpecSync == InitSync /\ [][NextSync]_vars

(***************************************************************************)
(* SpecTabs: the tabs of one browser run CrossTabSync (src/unnamed/        *)
(* part_012): a page loads and calls init, a user calls forceSync, a page  *)
(* calls destroy, and time passes.                                         *)
(***************************************************************************)
\* determineMasterTab in tab t (lines 37-51): the tab becomes master when localStorage
\* holds no claim or one older than 5 seconds, and writes its claim; else it is a
\* follower. Nothing renews a claim.
determineMasterTab(t) ==
    LET claims == masterClaim = null \/ (now - masterClaim) > StaleMs
    IN /\ tabs' = [tabs EXCEPT ![t] = [open |-> TRUE, isMaster |-> claims]]
       /\ masterClaim' = IF claims THEN now ELSE masterClaim

\* the page of tab t loads: CrossTabSync.init()
tabInit(t) ==
    /\ ~tabs[t].open
    /\ determineMasterTab(t)
    /\ UNCHANGED <<objVars, procVars, envVars, obsVars, array, seedArg, shuffleCalls, peerTz,
                   seedCalls, syncClients>>

\* forceSync() in tab t: determineMasterTab, then a broadcast that changes no
\* tab's isMaster
forceSync(t) ==
    /\ tabs[t].open
    /\ determineMasterTab(t)
    /\ UNCHANGED <<objVars, procVars, envVars, obsVars, array, seedArg, shuffleCalls, peerTz,
                   seedCalls, syncClients>>

\* destroy() in tab t, whose page goes away: a master removes the claim that
\* localStorage holds, whichever tab wrote it
destroy(t) ==
    /\ tabs[t].open
    /\ tabs' = [tabs EXCEPT ![t] = ClosedTab]
    /\ masterClaim' = IF tabs[t].isMaster THEN null ELSE masterClaim
    /\ UNCHANGED <<objVars, procVars, envVars, obsVars, array, seedArg, shuffleCalls, peerTz,
                   seedCalls, syncClients>>

\* three seconds pass
tabTick ==
    /\ now < MaxClockSteps * 3000
    /\ now' = now + 3000
    /\ UNCHANGED <<objVars, procVars, scheduleFile, configFile, videosDir, tz, envBuild,
                   diskFaulty, obsVars, pureVars>>

InitTabs ==
    /\ Constructed /\ IdleEnv /\ tz = FixedZone(0)
    /\ array = <<>> /\ seedArg = 0 /\ shuffleCalls = <<>> /\ peerTz = 0 /\ seedCalls = <<>>
    /\ syncClients = NoSync
    /\ NoTabs

NextTabs ==
    \/ \E t \in Tabs : tabInit(t)
    \/ \E t \in Tabs : forceSync(t)
    \/ \E t \in Tabs : destroy(t)
    \/ tabTick

SpecTabs == InitTabs /\ [][NextTabs]_vars

(***************************************************************************)
(* Persistence (lines 58-111).                                             *)
(***************************************************************************)
\* { ...a, ...b }
Merge(a, b) == [f \in DOMAIN a \cup DOMAIN b |-> IF f \in DOMAIN b THEN b[f] ELSE a[f]]

\* a slip: the fields that can be made out in a damaged file are adopted
loadJsonAdoptsDamaged(record, file) ==
    IF file.state = "absent" THEN record ELSE Merge(record, file.data)

\* loadSchedule / loadConfig: the object's record merged with the file's, when the
\* file exists and parses; otherwise (absent, or unreadable: the catch) the record
\* as it is
loadJson(record, file) == IF file.state = "ok" THEN Merge(record, file.data) ELSE record

\* a slip: the save writes nothing
writeJsonLost(file, data) == {file}

\* saveSchedule / saveConfig, i.e. fs.writeJson(file, data): afterwards the file
\* holds data, or, when the write fails (the error is caught and logged), what it
\* held (the file could not be opened) or a part of the new text (the write broke off)
writeJson(file, data) ==
    IF diskFaulty THEN {JsonFile(data), file, DamagedFile(data)} ELSE {JsonFile(data)}

\* a slip: the .sort() is lost, and the files come as the directory lists them
\* (here: in descending order)
getVideoFilesAsListed ==
    LET sorted == SortedSeq(videosDir)
    IN [i \in DOMAIN sorted |-> sorted[Len(sorted) + 1 - i]]

\* getVideoFiles: the video files of the directory, sorted
getVideoFiles == SortedSeq(videosDir)

(***************************************************************************)
(* generateSchedule (lines 162-213).                                       *)
(***************************************************************************)
\* a slip: `>` for `>=`
staleStrictly(scheduleAge, interval) == scheduleAge > interval

\* scheduleAge >= this.config.scheduleRebuildInterval
stale(scheduleAge, interval) == scheduleAge >= interval

\* process.env.NODE_ENV === 'production' || process.env.BUILD_ENV || this.config.regenerateOnBuild
isBuildEnvironment == envBuild \/ config.regenerateOnBuild

\* shouldRegenerate (lines 180-184); a schedule never generated has the age Infinity
shouldRegenerate(forceRegenerate, videos) ==
    \/ forceRegenerate
    \/ isBuildEnvironment
    \/ schedule.generated = null
    \/ Len(schedule.shuffledOrder) # Len(videos)
    \/ stale(now - schedule.generated, config.scheduleRebuildInterval)

\* a slip: the check for an empty catalog is lost
noVideosUnchecked(videos) == FALSE

\* if (videos.length === 0) { ...; return false }
noVideos(videos) == Len(videos) = 0

\* the record of an operation in lastOp
Op(name) == [NoOp EXCEPT !.op = name]

\* the body of generateSchedule(forceRegenerate), called as operation `name`;
\* `started` is what becomes of the playback loop when the result is true
generateScheduleBody(name, forceRegenerate, started) ==
    LET videos == getVideoFiles
        seed == generateUTCSeed(now)
        newConfig == [config EXCEPT !.shuffleSeed = seed]
        newSchedule == [schedule EXCEPT !.shuffledOrder = shuffleArray(videos, seed),
                                        !.currentIndex = 0,
                                        !.totalPlayed = 0,
                                        !.generated = now]
    IN IF noVideos(videos)
       THEN /\ lastOp' = [Op(name) EXCEPT !.force = forceRegenerate, !.ret = "false"]
            /\ UNCHANGED <<schedule, config, scheduleFile, configFile, sinceGen, loopPc>>
       ELSE IF ~shouldRegenerate(forceRegenerate, videos)
       THEN /\ lastOp' = [Op(name) EXCEPT !.force = forceRegenerate, !.ret = "true"]
            /\ loopPc' = started
            /\ UNCHANGED <<schedule, config, scheduleFile, configFile, sinceGen>>
       ELSE /\ config' = newConfig
            /\ schedule' = newSchedule
            /\ configFile' \in writeJson(configFile, newConfig)
            /\ scheduleFile' \in writeJson(scheduleFile, newSchedule)
            /\ sinceGen' = [fresh |-> TRUE, served |-> <<>>]
            /\ loopPc' = started
            /\ lastOp' = [Op(name) EXCEPT !.force = forceRegenerate, !.ret = "true",
                                          !.log = "regenerated"]

\* a call of generateSchedule(forceRegenerate); forceRegenerateSchedule is the call
\* with true
generateSchedule(forceRegenerate) ==
    /\ phase = "ready"
    /\ staticAwait = 0
    /\ generateScheduleBody("generateSchedule", forceRegenerate, loopPc)
    /\ UNCHANGED <<isStaticActive, staticTimer, videoTimer, phase, staticAwait, orphanTimers,
                   videosDir, now, tz, envBuild, diskFaulty, pureVars>>

(***************************************************************************)
(* The static guard (lines 223-260).                                       *)
(***************************************************************************)
Levels == {0, 30, 50}

\* a slip: stopping the video also steps the cursor back, to play the video again
stopCurrentVideoRewinds(s) ==
    IF s.currentVideo # null
    THEN [s EXCEPT !.currentVideo = null,
                   !.currentIndex = (s.currentIndex + Len(s.shuffledOrder) - 1)
                                        % Len(s.shuffledOrder)]
    ELSE s

\* stopCurrentVideo: the schedule afterwards. this.videoTimer is never set, so
\* there is no timer to clear.
stopCurrentVideo(s) == IF s.currentVideo # null THEN [s EXCEPT !.currentVideo = null] ELSE s

\* a slip: the inner `if (!this.isStaticActive)` is lost
entersStaticOnEveryReport(level) == level > config.staticDetectionThreshold

\* if (level > this.config.staticDetectionThreshold) { if (!this.isStaticActive) {
entersStatic(level) == level > config.staticDetectionThreshold /\ ~isStaticActive

\* } else { if (this.isStaticActive) {
leavesStatic(level) == ~(level > config.staticDetectionThreshold) /\ isStaticActive

\* onStaticDetected(level), up to its return or to `await this.stopCurrentVideo()`.
\* Bound: a call that would start one more persistence timer than MaxSuspended is
\* not made.
onStaticDetected(level) ==
    /\ phase = "ready"
    /\ IF entersStatic(level)
       THEN /\ staticAwait + orphanTimers + (IF staticTimer = "pending" THEN 1 ELSE 0)
                   < MaxSuspended
            /\ isStaticActive' = TRUE
            /\ schedule' = stopCurrentVideo(schedule)
            /\ staticAwait' = staticAwait + 1
            /\ UNCHANGED <<staticTimer, orphanTimers>>
       ELSE IF leavesStatic(level)
       THEN /\ isStaticActive' = FALSE
            \* if (this.staticTimer) { clearTimeout(this.staticTimer); this.staticTimer = null }
            /\ staticTimer' = "null"
            /\ UNCHANGED <<schedule, staticAwait, orphanTimers>>
       ELSE UNCHANGED <<isStaticActive, schedule, staticAwait, staticTimer, orphanTimers>>
    /\ lastOp' = [Op("onStaticDetected") EXCEPT !.level = level]
    /\ UNCHANGED <<config, videoTimer, phase, loopPc, envVars, sinceGen, pureVars>>

\* onStaticDetected after its await: this.staticTimer = setTimeout(...). A handle
\* still pending in this.staticTimer is overwritten, and its timer stays pending.
onStaticDetectedResume ==
    /\ staticAwait > 0
    /\ staticAwait' = staticAwait - 1
    /\ staticTimer' = "pending"
    /\ orphanTimers' = IF staticTimer = "pending" THEN orphanTimers + 1 ELSE orphanTimers
    /\ lastOp' = Op("onStaticDetectedResume")
    /\ UNCHANGED <<schedule, config, isStaticActive, videoTimer, phase, loopPc, envVars,
                   sinceGen, pureVars>>

\* a slip: the callback gives up and lets the videos play again
staticTimerCallbackClears(active) == FALSE

\* the callback of the persistence timer, `if (this.isStaticActive) { console.log(...) }`:
\* this.isStaticActive afterwards
staticTimerCallback(active) == active

\* a persistence timer fires after maxStaticDuration: it logs when static is still
\* active, and changes nothing
staticTimerFires ==
    /\ staticAwait = 0
    /\ \/ /\ staticTimer = "pending"
          /\ staticTimer' = "fired"
          /\ UNCHANGED orphanTimers
       \/ /\ orphanTimers > 0
          /\ orphanTimers' = orphanTimers - 1
          /\ UNCHANGED staticTimer
    /\ isStaticActive' = staticTimerCallback(isStaticActive)
    /\ lastOp' = [Op("staticTimerFires") EXCEPT
                      !.log = IF isStaticActive THEN "static persisting" ELSE "none"]
    /\ UNCHANGED <<schedule, config, videoTimer, phase, loopPc, staticAwait,
                   envVars, sinceGen, pureVars>>

(***************************************************************************)
(* playNextVideo and the playback loop (lines 262-324).                    *)
(***************************************************************************)
\* a slip: the check of this.isStaticActive is lost
refusesOnlyEmptyOrder(active, order) == Len(order) = 0

\* if (this.isStaticActive) return null; if (this.schedule.shuffledOrder.length === 0) return null
refusesToPlay(active, order) == active \/ Len(order) = 0

\* a slip: the count starts again when a cycle is complete
totalPlayedResetOnWrap(totalPlayed, nextIndex) == IF nextIndex = 0 THEN 0 ELSE totalPlayed + 1

\* this.schedule.totalPlayed++
totalPlayedAfter(totalPlayed, nextIndex) == totalPlayed + 1

\* a slip: the index is advanced twice
nextIndexSkips(index, length) == (index + 2) % length

\* a slip: the index runs on without the wrap
nextIndexNoWrap(index, length) == index + 1

\* (this.schedule.currentIndex + 1) % this.schedule.shuffledOrder.length
nextIndexOf(index, length) == (index + 1) % length

\* the body of playNextVideo, called as operation `name`, up to
\* `await this.saveSchedule()`; `served` and `skipped` are what becomes of the
\* playback loop when a video is returned and when null is
playNextVideoBody(name, served, skipped) ==
    LET order == schedule.shuffledOrder
        index == schedule.currentIndex
        \* this.schedule.shuffledOrder[this.schedule.currentIndex]
        video == IF index < Len(order) THEN order[index + 1] ELSE null
        nextIndex == nextIndexOf(index, Len(order))
        newSchedule == [schedule EXCEPT !.currentVideo = video,
                                        !.totalPlayed =
                                            totalPlayedAfter(schedule.totalPlayed, nextIndex),
                                        !.currentIndex = nextIndex]
    IN IF refusesToPlay(isStaticActive, order)
       THEN /\ lastOp' = [Op(name) EXCEPT !.ret = "null"]
            /\ loopPc' = skipped
            /\ UNCHANGED <<schedule, scheduleFile, sinceGen>>
       ELSE /\ schedule.totalPlayed < MaxPlays
            /\ schedule' = newSchedule
            /\ scheduleFile' \in writeJson(scheduleFile, newSchedule)
            /\ sinceGen' = IF sinceGen.fresh
                           THEN [sinceGen EXCEPT !.served = Append(@, video)]
                           ELSE sinceGen
            /\ loopPc' = IF video # null THEN served ELSE skipped
            /\ lastOp' = [Op(name) EXCEPT
                              !.ret = IF video # null THEN "video" ELSE "null",
                              !.log = IF nextIndex = 0 THEN "cycle complete" ELSE "none"]

\* a call of playNextVideo from outside the playback loop
playNextVideo ==
    /\ phase = "ready"
    /\ staticAwait = 0
    /\ playNextVideoBody("playNextVideo", loopPc, loopPc)
    /\ UNCHANGED <<config, isStaticActive, staticTimer, videoTimer, phase, staticAwait,
                   orphanTimers, configFile, videosDir, now, tz, envBuild, diskFaulty, pureVars>>

\* a slip: startPlayback is called again while the loop runs
loopStartedAgain == TRUE

\* run() calls startPlayback once in the life of a process: the loop has not been
\* started before
loopNotStarted == loopPc = "off"

\* startPlayback: generateSchedule(), and the playback loop is started when it
\* returns true
startPlayback ==
    /\ phase = "ready"
    /\ loopNotStarted
    /\ staticAwait = 0
    /\ generateScheduleBody("startPlayback", FALSE, "iterate")
    /\ UNCHANGED <<isStaticActive, staticTimer, videoTimer, phase, staticAwait, orphanTimers,
                   videosDir, now, tz, envBuild, diskFaulty, pureVars>>

\* a slip: the loop ends when it finds static active
loopEndsWhenSuppressed == "off"

\* } else { await new Promise(resolve => setTimeout(resolve, 1000)) }: where the loop
\* is after a turn that found static active
loopWhenSuppressed == "polling"

\* one turn of `while (true)`, entered when the loop starts and when the transition
\* delay or the one-second poll has run out: playNextVideo() when static is not
\* active, a one-second wait when it is
playbackLoop ==
    /\ loopPc \in {"iterate", "transition", "polling"}
    /\ staticAwait = 0
    /\ IF ~isStaticActive
       THEN playNextVideoBody("playbackLoop", "saving", "iterate")
       ELSE /\ loopPc' = loopWhenSuppressed
            /\ lastOp' = Op("playbackLoopWaits")
            /\ UNCHANGED <<schedule, scheduleFile, sinceGen>>
    /\ UNCHANGED <<config, isStaticActive, staticTimer, videoTimer, phase, staticAwait,
                   orphanTimers, configFile, videosDir, now, tz, envBuild, diskFaulty, pureVars>>

\* saveSchedule has returned, playNextVideo returns the video, and the loop waits
\* for the video to end (5 seconds)
playbackVideoStarts ==
    /\ loopPc = "saving"
    /\ staticAwait = 0
    /\ loopPc' = "playing"
    /\ lastOp' = Op("playbackVideoStarts")
    /\ UNCHANGED <<objVars, phase, staticAwait, orphanTimers, envVars, sinceGen, pureVars>>

\* the video has ended, and the loop waits for videoTransitionDelay
playbackVideoEnds ==
    /\ loopPc = "playing"
    /\ staticAwait = 0
    /\ loopPc' = "transition"
    /\ lastOp' = Op("playbackVideoEnds")
    /\ UNCHANGED <<objVars, phase, staticAwait, orphanTimers, envVars, sinceGen, pureVars>>

\* the timers of the item being played: the 5-second timer of the video's duration
\* (line 313) or the videoTransitionDelay timer (line 317) is pending. The loop holds
\* them in promises of its own; no handle is kept, and this.videoTimer stays null.
itemTimerPending == loopPc \in {"playing", "transition"}

(***************************************************************************)
(* The process and its environment.                                        *)
(***************************************************************************)
\* init(): loadSchedule, then loadConfig
init ==
    /\ phase = "new"
    /\ phase' = "ready"
    /\ schedule' = loadJson(schedule, scheduleFile)
    /\ config' = loadJson(config, configFile)
    \* console.error('Error loading schedule' / 'Error loading config') of the catch
    /\ lastOp' = [Op("init") EXCEPT
                      !.log = IF "corrupt" \in {scheduleFile.state, configFile.state}
                              THEN "load failed" ELSE "none"]
    /\ UNCHANGED <<isStaticActive, staticTimer, videoTimer, loopPc, staticAwait, orphanTimers,
                   envVars, sinceGen, pureVars>>

\* the process ends (its timers and suspended calls with it) and a new one
\* constructs the scheduler
restart ==
    /\ phase = "ready"
    /\ schedule' = DefaultSchedule
    /\ config' = DefaultConfig
    /\ isStaticActive' = FALSE
    /\ staticTimer' = "null"
    /\ videoTimer' = "null"
    /\ phase' = "new"
    /\ loopPc' = "off"
    /\ staticAwait' = 0
    /\ orphanTimers' = 0
    /\ sinceGen' = Untracked
    /\ lastOp' = Op("restart")
    /\ UNCHANGED <<envVars, pureVars>>

StartMs == 23 * HourMs

\* half an hour passes
tick ==
    /\ staticAwait = 0
    /\ now + HalfHourMs <= StartMs + MaxClockSteps * HalfHourMs
    /\ now' = now + HalfHourMs
    /\ lastOp' = Op("tick")
    /\ UNCHANGED <<objVars, procVars, scheduleFile, configFile, videosDir, tz, envBuild,
                   diskFaulty, sinceGen, pureVars>>

\* the media downloader adds a video file, or a file is removed
catalogChanges ==
    /\ staticAwait = 0
    /\ \E v \in Videos : videosDir' = IF v \in videosDir THEN videosDir \ {v} ELSE videosDir \cup {v}
    /\ lastOp' = Op("catalogChanges")
    /\ UNCHANGED <<objVars, procVars, scheduleFile, configFile, now, tz, envBuild,
                   diskFaulty, sinceGen, pureVars>>

\* the disk begins to fail writes (full, read-only), or works again
diskChanges ==
    /\ staticAwait = 0
    /\ diskFaulty' = ~diskFaulty
    /\ lastOp' = Op("diskChanges")
    /\ UNCHANGED <<objVars, procVars, scheduleFile, configFile, videosDir, now, tz, envBuild,
                   sinceGen, pureVars>>

\* the configuration files an operator may have written before the first run
InitialConfigFiles == {AbsentFile, JsonFile([regenerateOnBuild |-> FALSE])}

Init ==
    /\ Constructed
    /\ scheduleFile = AbsentFile
    /\ configFile \in InitialConfigFiles
    /\ videosDir \in SUBSET Videos
    /\ now = StartMs
    /\ tz = FixedZone(MaxOffsetHours)
    /\ envBuild \in BOOLEAN
    /\ (envBuild => configFile # AbsentFile)
    /\ diskFaulty = FALSE
    /\ array = <<>> /\ seedArg = 0 /\ shuffleCalls = <<>> /\ peerTz = 0 /\ seedCalls = <<>>
    /\ syncClients = NoSync
    /\ NoTabs

\* the scheduler in its environment: the process starts and restarts, time passes,
\* the catalog changes; no static is reported
Next ==
    \/ init
    \/ restart
    \/ \E forceRegenerate \in BOOLEAN : generateSchedule(forceRegenerate)
    \/ startPlayback
    \/ playbackLoop
    \/ playbackVideoStarts
    \/ playbackVideoEnds
    \/ playNextVideo
    \/ tick
    \/ catalogChanges

Spec == Init /\ [][Next]_vars

(***************************************************************************)
(* SpecGuard: one run of the scheduler with static reported at any time;   *)
(* the clock and the catalog stay as the run finds them.                   *)
(***************************************************************************)
NextGuard ==
    \/ init
    \/ \E forceRegenerate \in BOOLEAN : generateSchedule(forceRegenerate)
    \/ startPlayback
    \/ playbackLoop
    \/ playbackVideoStarts
    \/ playbackVideoEnds
    \/ playNextVideo
    \/ \E level \in Levels : onStaticDetected(level)
    \/ onStaticDetectedResume
    \/ staticTimerFires

SpecGuard == Init /\ [][NextGuard]_vars

(***************************************************************************)
(* SpecRecover: SpecGuard with the process ending and starting again, so   *)
(* that a schedule is loaded from the file an earlier run has written.     *)
(***************************************************************************)
NextRecover ==
    \/ NextGuard
    \/ restart

SpecRecover == Init /\ [][NextRecover]_vars

(***************************************************************************)
(* SpecDriver: the scheduler as `run()` drives it with the command start:  *)
(* init, startPlayback and the playback loop, with static reported at any  *)
(* time; nothing else calls generateSchedule or playNextVideo.             *)
(* SpecDriverFair: the same with the event loop doing its work: a timer    *)
(* that has run out fires, an awaited promise that is settled resumes.     *)
(***************************************************************************)
NextDriver ==
    \/ init
    \/ startPlayback
    \/ playbackLoop
    \/ playbackVideoStarts
    \/ playbackVideoEnds
    \/ \E level \in Levels : onStaticDetected(level)
    \/ onStaticDetectedResume
    \/ staticTimerFires

SpecDriver == Init /\ [][NextDriver]_vars

SpecDriverFair ==
    /\ Init /\ [][NextDriver]_vars
    /\ WF_vars(playbackLoop)
    /\ WF_vars(playbackVideoStarts)
    /\ WF_vars(playbackVideoEnds)
    /\ WF_vars(onStaticDetectedResume)

(***************************************************************************)
(* SpecFaults: runs of the scheduler on a disk whose writes may fail: a    *)
(* process generates and plays, ends, and a new one loads what the files   *)
(* hold.                                                                   *)
(***************************************************************************)
NextFaults ==
    \/ init
    \/ restart
    \/ \E forceRegenerate \in BOOLEAN : generateSchedule(forceRegenerate)
    \/ playNextVideo
    \/ diskChanges

SpecFaults == Init /\ [][NextFaults]_vars

(***************************************************************************)
(* SpecConfig: the scheduler as `run()` drives it, started with a          *)
(* scheduler-config.json that sets staticDetectionThreshold: to a value of *)
(* [0, 1] (0, 0.3, 1) or to one outside it (-0.1, 1.5).                    *)
(***************************************************************************)
ThresholdConfigFiles ==
    {AbsentFile} \cup {JsonFile([staticDetectionThreshold |-> t]) : t \in {-10, 0, 30, 100, 150}}

InitConfig ==
    /\ Constructed
    /\ scheduleFile = AbsentFile
    /\ configFile \in ThresholdConfigFiles
    /\ videosDir = Videos
    /\ now = StartMs
    /\ tz = FixedZone(MaxOffsetHours)
    /\ envBuild = FALSE
    /\ diskFaulty = FALSE
    /\ array = <<>> /\ seedArg = 0 /\ shuffleCalls = <<>> /\ peerTz = 0 /\ seedCalls = <<>>
    /\ syncClients = NoSync
    /\ NoTabs

SpecConfig == InitConfig /\ [][NextDriver]_vars

(***************************************************************************)
(* The claims about shuffleArray (SpecShuffle).                            *)
(***************************************************************************)
\* C1: for every list of distinct items (the empty and the one-item list included)
\* and every seed, shuffleArray(items, seed) returns a list of the same length that
\* holds exactly the input items, each once, and leaves the caller's list as it was.
C1_ShuffleIsPermutation ==
    \A i \in DOMAIN shuffleCalls :
        LET c == shuffleCalls[i]
        IN c.seed # null =>
              /\ Len(c.out) = Len(c.items)
              /\ IsPermutationOf(c.out, c.items)
              /\ array = c.items

\* a seeded call on a full-length list has returned the items in another order
C1_Witness ==
    \E i \in DOMAIN shuffleCalls :
        LET c == shuffleCalls[i]
        IN c.seed # null /\ Len(c.items) = MaxLen /\ c.out # c.items

C3_DailySeedPerUTCDate ==
    config.dailySeedReset =>
        \A i, j \in DOMAIN seedCalls :
            LET a == seedCalls[i]
                b == seedCalls[j]
            IN (a.caller = "host" /\ b.caller = "host") =>
                  /\ (utcDay(a.date) = utcDay(b.date)) => (a.seed = b.seed)
                  /\ (utcDay(b.date) = utcDay(a.date) + 1) => (a.seed # b.seed)

\* C4: in daily mode the seed does not depend on the caller's time zone: two callers
\* with the same instant get the same seed, and the seed is (D * 31) mod 1000000,
\* D the whole days from the Unix epoch to the instant's UTC calendar date.
C4_DailySeedIgnoresTimezone ==
    config.dailySeedReset =>
        /\ \A i \in DOMAIN seedCalls :
              LET D == EpochDay0 + utcDay(seedCalls[i].date)
              IN seedCalls[i].seed = (D * DailyMultiplier) % SeedModulus
        /\ \A i, j \in DOMAIN seedCalls :
              (seedCalls[i].date = seedCalls[j].date) => (seedCalls[i].seed = seedCalls[j].seed)

(***************************************************************************)
(* The claims about the schedule (Spec).                                   *)
(***************************************************************************)
\* C5: after this process generated a schedule over N >= 1 videos, and until it
\* generates again, the k-th playNextVideo returns shuffledOrder[(k-1) mod N]: the
\* first N calls return every video of the order once, in order, the (N+1)-th returns
\* shuffledOrder[0] again, and the cycle-complete event is recorded by the calls that
\* end a cycle (the N-th, the 2N-th, ...) and by no other.
C5_NoRepeatBeforeCycle ==
    sinceGen.fresh =>
        LET order == schedule.shuffledOrder
            N == Len(order)
            served == sinceGen.served
        IN /\ N >= 1
           /\ \A i, j \in DOMAIN order : order[i] = order[j] => i = j
           /\ Len(served) = schedule.totalPlayed
           /\ \A k \in DOMAIN served : served[k] = order[((k - 1) % N) + 1]
           /\ (lastOp.op \in {"playNextVideo", "playbackLoop"} /\ lastOp.ret = "video")
                 => (lastOp.log = "cycle complete" <=> Len(served) % N = 0)

\* a schedule over two or more videos has been played through, and one video more
C5_Witness ==
    /\ sinceGen.fresh
    /\ Len(schedule.shuffledOrder) >= 2
    /\ Len(sinceGen.served) = Len(schedule.shuffledOrder) + 1
    /\ lastOp.ret = "video"

\* C6 (as amended): a call of generateSchedule(force) with a non-empty catalog
\* returns true. When force is true, the build environment is set (by the process
\* environment or by config.regenerateOnBuild), no schedule was generated before, the
\* catalog length differs from the length of the order, or the schedule's age is at
\* least scheduleRebuildInterval, it replaces the schedule: a permutation of the
\* catalog, cursor 0, play count 0, generated now. When none of these holds it leaves
\* the schedule, the config and both files untouched.
C6_RegenerationTriggers ==
    [][ (lastOp'.op \in {"generateSchedule", "startPlayback"} /\ videosDir # {}) =>
           LET triggered ==
                   \/ lastOp'.force
                   \/ envBuild \/ config.regenerateOnBuild
                   \/ schedule.generated = null
                   \/ Len(schedule.shuffledOrder) # Cardinality(videosDir)
                   \/ now - schedule.generated >= config.scheduleRebuildInterval
           IN /\ lastOp'.ret = "true"
              /\ triggered =>
                    /\ IsPermutationOf(schedule'.shuffledOrder, SortedSeq(videosDir))
                    /\ schedule'.currentIndex = 0
                    /\ schedule'.totalPlayed = 0
                    /\ schedule'.generated = now
                    /\ scheduleFile'.data = schedule'
              /\ ~triggered => UNCHANGED <<schedule, config, scheduleFile, configFile>>
       ]_vars

\* generateSchedule has returned true and kept a schedule that has been played from
C6_Witness ==
    /\ lastOp.op = "generateSchedule"
    /\ lastOp.ret = "true"
    /\ lastOp.log = "none"
    /\ schedule.generated # null
    /\ schedule.totalPlayed > 0

\* C6 (as stated): with a non-empty catalog generateSchedule returns true and replaces
\* the schedule with cursor 0 when force is true, the catalog length differs or the
\* age is at least the interval; when no regeneration trigger holds it returns false
\* and leaves the schedule and the config untouched.
C6_ReturnsFalseWhenKept ==
    [][ (lastOp'.op \in {"generateSchedule", "startPlayback"} /\ videosDir # {}) =>
           LET stated ==
                   \/ lastOp'.force
                   \/ Len(schedule.shuffledOrder) # Cardinality(videosDir)
                   \/ (schedule.generated # null
                       /\ now - schedule.generated >= config.scheduleRebuildInterval)
               triggered ==
                   \/ stated
                   \/ envBuild \/ config.regenerateOnBuild
                   \/ schedule.generated = null
           IN /\ stated => (lastOp'.ret = "true" /\ schedule'.currentIndex = 0)
              /\ ~triggered => (lastOp'.ret = "false" /\ UNCHANGED <<schedule, config>>)
       ]_vars

\* C10: when a run has persisted a schedule and a new process starts with the same
\* catalog, before the schedule is scheduleRebuildInterval old, startPlayback keeps
\* the persisted shuffledOrder, currentIndex and totalPlayed.
C10_ScheduleSurvivesRestart ==
    [][ ( /\ lastOp'.op = "startPlayback"
          /\ ~sinceGen.fresh
          /\ scheduleFile.state = "ok"
          /\ schedule = scheduleFile.data
          /\ Range(schedule.shuffledOrder) = videosDir
          /\ videosDir # {}
          /\ now - schedule.generated < config.scheduleRebuildInterval )
        => /\ schedule'.shuffledOrder = schedule.shuffledOrder
           /\ schedule'.currentIndex = schedule.currentIndex
           /\ schedule'.totalPlayed = schedule.totalPlayed
      ]_vars

C11_EmptyCatalogMutatesNothing ==
    [][ (lastOp'.op \in {"generateSchedule", "startPlayback"} /\ videosDir = {}) =>
           /\ lastOp'.ret = "false"
           /\ UNCHANGED <<schedule, config, scheduleFile, configFile, loopPc>>
           /\ (lastOp'.op = "startPlayback" => loopPc' = "off")
      ]_vars

\* startPlayback has found the catalog empty, with a schedule of an earlier catalog
\* loaded, and has not started the loop
C11_Witness ==
    /\ lastOp.op = "startPlayback"
    /\ lastOp.ret = "false"
    /\ videosDir = {}
    /\ schedule.shuffledOrder # <<>>
    /\ loopPc = "off"

C8_NoAdvanceWhileSuppressed ==
    [][ ( /\ isStaticActive
          /\ lastOp'.op \in {"playbackLoop", "playbackLoopWaits", "playbackVideoStarts",
                             "playbackVideoEnds", "playNextVideo", "onStaticDetected",
                             "onStaticDetectedResume", "staticTimerFires"} )
        => /\ schedule'.totalPlayed = schedule.totalPlayed
           /\ schedule'.currentIndex = schedule.currentIndex
      ]_vars

\* the playback loop, having played, finds the guard suppressed and waits
C8_Witness ==
    /\ isStaticActive
    /\ lastOp.op = "playbackLoopWaits"
    /\ loopPc = "polling"
    /\ schedule.totalPlayed > 0

\* C9: a call of onStaticDetected with a level above the threshold while the guard
\* is suppressed, or at or below it while the guard is clear, changes nothing: not the
\* guard, not the persistence timers, not the current video, not the schedule.
C9_SameSideReportIsNoOp ==
    [][ ( /\ lastOp'.op = "onStaticDetected"
          /\ (lastOp'.level > config.staticDetectionThreshold) <=> isStaticActive )
        => UNCHANGED <<schedule, config, isStaticActive, staticTimer, videoTimer, staticAwait,
                       orphanTimers, loopPc, scheduleFile, configFile>>
      ]_vars

\* static is reported again while the guard is suppressed and its timer is pending
C9_Witness ==
    /\ lastOp.op = "onStaticDetected"
    /\ lastOp.level > config.staticDetectionThreshold
    /\ isStaticActive
    /\ staticAwait = 0
    /\ staticTimer = "pending"

\* C16 (as amended): playNextVideo gates on interference. While the guard is
\* suppressed, or when the shuffled order is empty, it returns null and leaves the
\* schedule as it is; otherwise it returns shuffledOrder[currentIndex], sets
\* currentVideo to it, increments totalPlayed and advances the cursor.
C16_PlayNextVideoGatesOnStatic ==
    [][ (lastOp'.op \in {"playNextVideo", "playbackLoop"}) =>
           LET order == schedule.shuffledOrder
           IN IF isStaticActive \/ order = <<>>
              THEN lastOp'.ret = "null" /\ UNCHANGED <<schedule, scheduleFile>>
              ELSE /\ lastOp'.ret = "video"
                   /\ schedule'.currentVideo = order[schedule.currentIndex + 1]
                   /\ schedule'.totalPlayed = schedule.totalPlayed + 1
                   /\ schedule'.currentIndex = (schedule.currentIndex + 1) % Len(order)
                   /\ scheduleFile'.data = schedule'
      ]_vars

\* playNextVideo, called with a schedule that has videos, has returned null: the
\* guard is suppressed
C16_Witness ==
    /\ lastOp.op = "playNextVideo"
    /\ lastOp.ret = "null"
    /\ isStaticActive
    /\ schedule.shuffledOrder # <<>>
    /\ schedule.totalPlayed > 0

\* C16 (as stated): whenever the shuffled order is non-empty, playNextVideo returns
\* shuffledOrder[currentIndex], sets currentVideo, increments totalPlayed and advances
\* the cursor, whatever the guard state; it returns null only when the order is empty.
C16_PlayNextVideoIgnoresGuard ==
    [][ (lastOp'.op \in {"playNextVideo", "playbackLoop"}) =>
           LET order == schedule.shuffledOrder
           IN IF order = <<>>
              THEN lastOp'.ret = "null"
              ELSE /\ lastOp'.ret = "video"
                   /\ schedule'.currentVideo = order[schedule.currentIndex + 1]
                   /\ schedule'.totalPlayed = schedule.totalPlayed + 1
                   /\ schedule'.currentIndex = (schedule.currentIndex + 1) % Len(order)
      ]_vars

\* C17: in every state, whatever the interleaving of onStaticDetected calls, no
\* persistence timer is pending while the guard is clear, and at most one persistence
\* timer is pending.
C17_ClearCancelsPersistenceTimer ==
    LET pending == orphanTimers + (IF staticTimer = "pending" THEN 1 ELSE 0)
    IN /\ ~isStaticActive => pending = 0
       /\ pending <= 1

\* C18: a call of onStaticDetected, in any guard state and up to its end, leaves
\* shuffledOrder, currentIndex, totalPlayed and generated as they were; the one field
\* of the schedule it may change is currentVideo, which it clears when the guard goes
\* from clear to suppressed. So the videos served since a generation, suppressions in
\* between or not, are those of shuffledOrder in order, none left out or repeated.
C18_StaticReportKeepsPosition ==
    /\ [](sinceGen.fresh =>
             \A k \in DOMAIN sinceGen.served :
                 sinceGen.served[k] =
                     schedule.shuffledOrder[((k - 1) % Len(schedule.shuffledOrder)) + 1])
    /\ [][ (lastOp'.op \in {"onStaticDetected", "onStaticDetectedResume"}) =>
              /\ schedule'.shuffledOrder = schedule.shuffledOrder
              /\ schedule'.currentIndex = schedule.currentIndex
              /\ schedule'.totalPlayed = schedule.totalPlayed
              /\ schedule'.generated = schedule.generated
              /\ (schedule' # schedule) =>
                    /\ schedule' = [schedule EXCEPT !.currentVideo = null]
                    /\ ~isStaticActive /\ isStaticActive'
              /\ UNCHANGED <<scheduleFile, config>>
         ]_vars

\* static is reported in the middle of a cycle: the current video is stopped and the
\* cursor stays where it was
C18_Witness ==
    /\ lastOp.op = "onStaticDetected"
    /\ isStaticActive
    /\ staticAwait > 0
    /\ schedule.currentVideo = null
    /\ schedule.currentIndex > 0
    /\ schedule.totalPlayed > 0

(***************************************************************************)
(* The claims about the cursor and the play count (SpecRecover).           *)
(***************************************************************************)
\* C12: in every state with a non-empty shuffledOrder, whatever loads, generations,
\* playNextVideo and onStaticDetected calls led to it, 0 <= currentIndex <
\* Len(shuffledOrder); and every playNextVideo that returns a video changes
\* currentIndex to (currentIndex + 1) mod Len(shuffledOrder).
C12_CursorInvariant ==
    /\ [](Len(schedule.shuffledOrder) > 0 =>
             (0 <= schedule.currentIndex /\ schedule.currentIndex < Len(schedule.shuffledOrder)))
    /\ [][ (lastOp'.op \in {"playNextVideo", "playbackLoop"} /\ lastOp'.ret = "video") =>
              /\ schedule'.shuffledOrder = schedule.shuffledOrder
              /\ schedule'.currentIndex =
                     (schedule.currentIndex + 1) % Len(schedule.shuffledOrder)
         ]_vars

\* a schedule of two or more videos, loaded from the file by a new process, has been
\* played to the end of a cycle, and the cursor is back at 0
C12_Witness ==
    /\ ~sinceGen.fresh
    /\ Len(schedule.shuffledOrder) >= 2
    /\ lastOp.ret = "video"
    /\ lastOp.log = "cycle complete"
    /\ schedule.currentIndex = 0

\* C13 (as amended): every playNextVideo that returns a video increases totalPlayed
\* by exactly one, the call that wraps the cursor included; totalPlayed becomes
\* smaller in two steps only, both of which set it to 0: a generateSchedule that
\* regenerates the schedule, and the construction of the scheduler by a new process
\* (init then loads the persisted count).
C13_PlayCountWithinGeneration ==
    [][ /\ (lastOp'.op \in {"playNextVideo", "playbackLoop"} /\ lastOp'.ret = "video") =>
              schedule'.totalPlayed = schedule.totalPlayed + 1
        /\ (schedule'.totalPlayed < schedule.totalPlayed) =>
              /\ schedule'.totalPlayed = 0
              /\ \/ lastOp'.op \in {"generateSchedule", "startPlayback"}
                    /\ lastOp'.log = "regenerated"
                 \/ lastOp'.op = "restart"
      ]_vars

\* the cursor has wrapped and the count has gone on beyond the length of the order
C13_Witness ==
    /\ lastOp.ret = "video"
    /\ Len(schedule.shuffledOrder) >= 2
    /\ schedule.totalPlayed > Len(schedule.shuffledOrder)

\* C13 (as stated): every playNextVideo that returns a video increases totalPlayed by
\* exactly one, and no step of the scheduler makes totalPlayed smaller than it was.
C13_PlayCountNeverDecreases ==
    [][ /\ (lastOp'.op \in {"playNextVideo", "playbackLoop"} /\ lastOp'.ret = "video") =>
              schedule'.totalPlayed = schedule.totalPlayed + 1
        /\ (lastOp'.op # "restart") => schedule'.totalPlayed >= schedule.totalPlayed
      ]_vars

(***************************************************************************)
(* The claim about UniversalSync (SpecSync).                               *)
(***************************************************************************)
\* C15: two clients that hold the same shuffled order and evaluate the time-based
\* position at the same instant hold the same video index and the same video
\* afterwards, whatever their time zones and the cursors they held before.
C15_ClientsConverge ==
    (syncClients.at # null /\ array # <<>>) =>
        /\ syncClients.host.currentIndex = syncClients.peer.currentIndex
        /\ syncClients.host.currentVideo = syncClients.peer.currentVideo

(***************************************************************************)
(* The claims about the playback loop (SpecDriver, SpecDriverFair).        *)
(***************************************************************************)
\* C19: the cursor and the play count are changed by no step but startPlayback's
\* generateSchedule, before the loop runs, and a turn of the playback loop; and a
\* turn of the loop changes them only when the playNextVideo of the turn before, its
\* write to the file and the waits for the video and the transition are over. So
\* at most one playNextVideo is in flight.
C19_OneAdvancementInFlight ==
    [][ (\/ schedule'.currentIndex # schedule.currentIndex
         \/ schedule'.totalPlayed # schedule.totalPlayed) =>
           \/ lastOp'.op = "startPlayback" /\ loopPc = "off"
           \/ /\ lastOp'.op = "playbackLoop"
              /\ loopPc \in {"iterate", "transition", "polling"}
              /\ loopPc' = "saving"
      ]_vars

\* the loop has started its second playNextVideo
C19_Witness ==
    /\ lastOp.op = "playbackLoop"
    /\ loopPc = "saving"
    /\ schedule.totalPlayed >= 2

\* C20: with timers that fire and awaits that resume, whenever the loop runs, the
\* guard is clear and the schedule has been played k times, either the guard becomes
\* suppressed again or the loop serves the next video (totalPlayed exceeds k); while
\* the guard is suppressed the loop comes to its one-second poll again and again,
\* and a loop that runs never ends.
C20_ResumeLiveness ==
    /\ \A k \in 0..(MaxPlays - 1) :
          (loopPc # "off" /\ ~isStaticActive /\ schedule.totalPlayed = k)
              ~> (isStaticActive \/ schedule.totalPlayed > k)
    /\ (loopPc # "off" /\ isStaticActive) ~> (~isStaticActive \/ loopPc = "polling")
    /\ [][loopPc # "off" => loopPc' # "off"]_vars

\* the loop, which has played and then polled while the guard was suppressed, finds
\* the guard clear again, with a video still to serve
C20_Witness ==
    /\ loopPc = "polling"
    /\ ~isStaticActive
    /\ staticAwait = 0
    /\ schedule.totalPlayed > 0
    /\ schedule.totalPlayed < MaxPlays

(***************************************************************************)
(* The claim about the timers of the item being played (SpecDriver).       *)
(***************************************************************************)
\* C21: when the playing item is stopped, by the stopCurrentVideo of the report that
\* takes the guard from clear to suppressed, every pending per-item timer is
\* cancelled: no item-duration or transition timer started before the stop is
\* pending after it.
C21_StopCancelsItemTimers ==
    [][ (lastOp'.op = "onStaticDetected" /\ ~isStaticActive /\ isStaticActive')
        => ~itemTimerPending' ]_vars

(***************************************************************************)
(* The claims about the schedule and the catalog (Spec), the interference  *)
(* flag of the schedule (SpecGuard) and the cursor a UniversalSync         *)
(* correction leaves (SpecSync).                                           *)
(***************************************************************************)
\* C25: after every generateSchedule that returns true, shuffledOrder holds exactly
\* the videos of the catalog, each once, however the catalog changed since the
\* generation before (videos added, removed or replaced).
C25_ScheduleFollowsCatalog ==
    [][ (lastOp'.op \in {"generateSchedule", "startPlayback"} /\ lastOp'.ret = "true") =>
           IsPermutationOf(schedule'.shuffledOrder, SortedSeq(videosDir))
      ]_vars

\* C26: in every state after a call of onStaticDetected, schedule.staticDetected is
\* true exactly when the guard is suppressed.
C26_FlagFollowsGuard ==
    (lastOp.op \in {"onStaticDetected", "onStaticDetectedResume"}) =>
        (schedule.staticDetected <=> isStaticActive)

\* C28: in every state currentVideo is null or the video playNextVideo returned last
\* from the current shuffledOrder, shuffledOrder[(currentIndex - 1) mod len].
C28_CurrentVideoIsLastServed ==
    LET order == schedule.shuffledOrder
        last == (schedule.currentIndex + Len(order) - 1) % Len(order)
    IN schedule.currentVideo # null =>
          /\ Len(order) > 0
          /\ schedule.currentVideo = order[last + 1]

\* C30: after a correction by applyUniversalPosition, with a cached order of length
\* L >= 1 and at every time of day, 0 <= currentIndex < L and currentVideo is
\* order[currentIndex].
C30_SyncLeavesCursorValid ==
    (syncClients.at # null /\ Len(array) >= 1) =>
        \A client \in {syncClients.host, syncClients.peer} :
            /\ 0 <= client.currentIndex
            /\ client.currentIndex < Len(array)
            /\ client.currentVideo = OrderVideo(array[client.currentIndex + 1])

(***************************************************************************)
(* The claim about the hourly seed (SpecSeed).                             *)
(***************************************************************************)
\* C27: in hourly mode (dailySeedReset = false) generateUTCSeed(instant) is
\* (floor(instant in ms / 3600000) * 17) mod 1000000: it lies in [0, 1000000), and two
\* calls with instants of the same UTC hour return the same seed, whatever the time
\* zones of the callers and whatever was called before.
C27_HourlySeed ==
    ~config.dailySeedReset =>
        /\ \A i \in DOMAIN seedCalls :
              LET c == seedCalls[i]
                  \* whole hours from the Unix epoch to the instant
                  hours == EpochDay0 * 24 + (c.date \div 3600000)
              IN /\ c.seed = (hours * 17) % 1000000
                 /\ 0 <= c.seed /\ c.seed < 1000000
        /\ \A i, j \in DOMAIN seedCalls :
              (seedCalls[i].date \div HourMs = seedCalls[j].date \div HourMs)
                  => (seedCalls[i].seed = seedCalls[j].seed)

\* in hourly mode, the host and a peer in another time zone have asked for the seed
\* of two different instants of one UTC hour
C27_Witness ==
    /\ ~config.dailySeedReset
    /\ Len(seedCalls) = 2
    /\ seedCalls[1].caller = "host" /\ seedCalls[2].caller = "peer"
    /\ seedCalls[1].date # seedCalls[2].date
    /\ seedCalls[1].date \div HourMs = seedCalls[2].date \div HourMs
    /\ tz[utcDay(seedCalls[1].date)] # peerTz
    /\ seedCalls[1].seed = seedCalls[2].seed

(***************************************************************************)
(* The claim about the loaded configuration (SpecConfig).                  *)
(***************************************************************************)
\* C24: after loadConfig, whatever scheduler-config.json holds,
\* staticDetectionThreshold lies in [0, 1] (0..100 percent): a value outside the
\* range is replaced by a clamped or the default value and is not adopted.
C24_ThresholdInRange ==
    phase = "ready" =>
        (0 <= config.staticDetectionThreshold /\ config.staticDetectionThreshold <= 100)

(***************************************************************************)
(* The claim about the master tab (SpecTabs).                              *)
(***************************************************************************)
\* C29: among the tabs that share the localStorage key 'video-scheduler-master', at
\* most one has isMaster = true at any time, for every interleaving of init,
\* forceSync and destroy and whatever time passes between them.
C29_SingleMaster ==
    Cardinality({t \in Tabs : tabs[t].open /\ tabs[t].isMaster}) <= 1

(***************************************************************************)
(* The claims about failed reads and writes (SpecFaults).                  *)
(***************************************************************************)
\* C22: when the schedule file (or the config file) cannot be parsed, init raises
\* nothing and leaves the schedule (the config) at the constructor's defaults:
\* generated = null, empty order, cursor 0; and the next generateSchedule with a
\* non-empty catalog regenerates.
C22_FailedReadIsAbsent ==
    [][ /\ (lastOp'.op = "init" /\ scheduleFile.state = "corrupt") =>
              /\ phase' = "ready"
              /\ schedule' = DefaultSchedule
              /\ schedule'.generated = null
              /\ schedule'.shuffledOrder = <<>>
              /\ schedule'.currentIndex = 0
        /\ (lastOp'.op = "init" /\ configFile.state = "corrupt") =>
              (phase' = "ready" /\ config' = DefaultConfig)
        /\ ( /\ lastOp'.op = "generateSchedule"
             /\ schedule = DefaultSchedule
             /\ videosDir # {} ) =>
              /\ lastOp'.ret = "true"
              /\ lastOp'.log = "regenerated"
              /\ schedule'.generated = now
              /\ IsPermutationOf(schedule'.shuffledOrder, SortedSeq(videosDir))
      ]_vars

\* a new process has found a schedule file that does not parse, with a config that
\* asks for no regeneration on build and a catalog that has videos, and has gone on
\* with the default schedule
C22_Witness ==
    /\ lastOp.op = "init"
    /\ lastOp.log = "load failed"
    /\ phase = "ready"
    /\ scheduleFile.state = "corrupt"
    /\ configFile.state = "ok"
    /\ ~config.regenerateOnBuild
    /\ schedule = DefaultSchedule
    /\ videosDir # {}

\* C23: a save that fails during playNextVideo or generateSchedule is not fatal: the
\* operation returns what it returns on success and updates the schedule in memory
\* exactly as on success, whatever becomes of the file; and a save on a disk that
\* works writes the whole schedule (config) then in memory to the file.
C23_FailedWriteNotFatal ==
    [][ /\ (lastOp'.op = "playNextVideo" /\ ~isStaticActive /\ schedule.shuffledOrder # <<>>) =>
              LET order == schedule.shuffledOrder
              IN /\ lastOp'.ret = "video"
                 /\ schedule' = [schedule EXCEPT
                                    !.currentVideo = order[schedule.currentIndex + 1],
                                    !.totalPlayed = schedule.totalPlayed + 1,
                                    !.currentIndex = (schedule.currentIndex + 1) % Len(order)]
                 /\ ~diskFaulty => scheduleFile' = JsonFile(schedule')
        /\ (lastOp'.op = "generateSchedule" /\ lastOp'.log = "regenerated") =>
              /\ lastOp'.ret = "true"
              /\ schedule' = [schedule EXCEPT
                                 !.shuffledOrder =
                                     shuffleArray(SortedSeq(videosDir), generateUTCSeed(now)),
                                 !.currentIndex = 0,
                                 !.totalPlayed = 0,
                                 !.generated = now]
              /\ config' = [config EXCEPT !.shuffleSeed = generateUTCSeed(now)]
              /\ ~diskFaulty =>
                    (scheduleFile' = JsonFile(schedule') /\ configFile' = JsonFile(config'))
      ]_vars

\* playNextVideo has returned its second video in a row while the save failed: the
\* file holds the schedule as it was two videos ago
C23_Witness ==
    /\ lastOp.op = "playNextVideo"
    /\ lastOp.ret = "video"
    /\ diskFaulty
    /\ scheduleFile.state = "ok"
    /\ scheduleFile.data.currentIndex = 0
    /\ scheduleFile.data.totalPlayed = 0
    /\ schedule.totalPlayed = 2

====
